---- MODULE Spec2Model ----
(***************************************************************************)
(* bitbang-hal: the I2C master (src/src/i2c.rs), the serial engine         *)
(* (src/src/serial.rs) and the SPI master (src/src/spi.rs), each driven    *)
(* against a mock pin/timer harness that records every pin and timer call. *)
(*                                                                         *)
(* An operation is unfolded into the straight-line sequence of pin, timer  *)
(* and bookkeeping calls its body makes (prog); one step executes the next *)
(* call.  The harness decides what a sampled line reads and whether a pin  *)
(* or the timer fails.  trace is the harness's record of the calls of the  *)
(* operation in flight.                                                    *)
(***************************************************************************)
EXTENDS Integers, Sequences, FiniteSets, TLC

VARIABLES
  engine,        \* which engine this program instantiated: "i2c" | "uart" | "spi"
  op,            \* the operation last called ("none" before the first call)
  prog,          \* the calls the operation in flight has still to make
  result,        \* what the operation returned; None while in flight
  trace,         \* harness record of the pin/timer calls of this operation
  timerFaulted,  \* the timer returned an error to some wait of this operation
  scl, sda,      \* I2C: last level driven on each line (1 = released)
  addr, output, input,  \* I2C: the arguments of the call
  byte, ack,     \* I2C: locals of i2c_read_byte / i2c_is_ack
  slave,         \* I2C: the byte the addressed slave is shifting out
  calls,         \* UART/SPI: bus operations called so far on this engine
  prev,          \* UART/SPI: harness record of the operation before this one
  tx,            \* UART: last level driven on TX
  rate, rx_delay_centering, rx_delay_intrabit, rx_delay_stopbit, tx_delay,
  timeout,       \* UART: the fields of Serial
  data_in, ctr,  \* UART: locals of read / try_read
  rx_frame,      \* UART: the byte the remote transmitter is sending on RX
  byte_arg,      \* UART write / SPI send: the byte argument
  mode, bit_order, read_val,  \* SPI: the fields of SPI (read_val: <<>> is None)
  sck, mosi,     \* SPI: last level driven on each output
  loopback,      \* UART/SPI: the harness ties the input (RX, MISO) to the
                 \* output (TX, MOSI)
  miso_byte      \* SPI: otherwise, the byte the slave is shifting out

i2cVars == <<scl, sda, addr, output, input, byte, ack, slave>>

uartCfg == <<rate, rx_delay_centering, rx_delay_intrabit, rx_delay_stopbit,
             tx_delay, timeout>>

uartVars == <<tx, uartCfg, data_in, ctr, rx_frame, byte_arg>>

spiVars == <<mode, bit_order, read_val, sck, mosi, loopback, miso_byte>>

vars == <<engine, op, prog, result, trace, timerFaulted, calls, prev,
          i2cVars, uartVars, spiVars>>

\* What the steps of one engine leave alone.
notI2C == <<calls, uartVars, spiVars>>
notUart == <<i2cVars, spiVars>>
notSpi == <<i2cVars, uartVars>>

\* ---------------------------------------------------------------- bounds
\* Longest slice handed to an I2C operation.
MaxLen == 2

\* Operations issued on one UART or SPI engine in one behaviour.
MaxCalls == 2
\* High samples of RX the harness presents before a start bit.
MaxPoll == 2
\* Largest value handed to set_timeout.
MaxTimeout == 2

\* 7-bit slave addresses, payload bytes and bytes a slave presents.
Addrs == {80, 47}
OutBytes == {165, 90}
SlaveBytes == {17, 238}
\* Opaque error values a failing pin may raise.
PinErrors == {1, 2}
\* Bytes written to the UART, bytes a remote transmitter sends, baud rates.
TxBytes == {85, 15}
RxBytes == {85, 200}
Rates == {9600}
\* Bytes sent over SPI and bytes an SPI slave shifts out.
SendBytes == {129, 106}
MisoBytes == {197}

\* ---------------------------------------------------------------- helpers
None == <<"none", 0>>
Ok == <<"Ok", 0>>
NoAck == <<"NoAck", 0>>
InvalidData == <<"InvalidData", 0>>
Bus(e) == <<"Bus", e>>
OkByte(b) == <<"Ok", b>>
Err == <<"Err", 0>>
Panic == <<"panic", 0>>
NoData == <<"NoData", 0>>

Pow2(k) == 2 ^ k
\* (byte >> k) & 0b1
Bit(b, k) == (b \div Pow2(k)) % 2

RECURSIVE SeqsUpTo(_, _)
SeqsUpTo(S, n) ==
  IF n = 0 THEN {<<>>}
  ELSE LET shorter == SeqsUpTo(S, n - 1)
       IN shorter \cup {Append(s, x) : s \in {t \in shorter : Len(t) = n - 1}, x \in S}

\* for k in lo..hi { body(k) }
RECURSIVE ForRange(_, _, _)
ForRange(body(_), lo, hi) ==
  IF lo > hi THEN <<>> ELSE body(lo) \o ForRange(body, lo + 1, hi)

\* ---------------------------------------------------------------- I2C
set_scl_high == << <<"scl", 1>> >>
set_scl_low == << <<"scl", 0>> >>
set_sda_high == << <<"sda", 1>> >>
set_sda_low == << <<"sda", 0>> >>
wait_for_clk == << <<"wait_for_clk", 0>> >>

i2c_start ==
  set_scl_high \o set_sda_high \o wait_for_clk
  \o set_sda_low \o wait_for_clk
  \o set_scl_low \o wait_for_clk

\* Mutant: STOP that never releases SDA.
i2c_stop_sda_held ==
  set_scl_high \o wait_for_clk
  \o wait_for_clk

i2c_stop ==
  set_scl_high \o wait_for_clk
  \o set_sda_high \o wait_for_clk

\* Mutant: after the acknowledge sample SDA is parked low before SCL falls.
i2c_is_ack_parks_early ==
  set_sda_high \o set_scl_high \o wait_for_clk
  \o << <<"sda.is_low", 0>> >>
  \o set_sda_low \o set_scl_low \o wait_for_clk

i2c_is_ack ==
  set_sda_high \o set_scl_high \o wait_for_clk
  \o << <<"sda.is_low", 0>> >>
  \o set_scl_low \o set_sda_low \o wait_for_clk

\* Mutant: the acknowledge bit is clocked but its value is not looked at.
check_ack_unchecked == i2c_is_ack

check_ack == i2c_is_ack \o << <<"check_ack", 0>> >>

i2c_read_byte(should_send_ack) ==
  LET bit(bit_offset) ==
        set_scl_high \o wait_for_clk
        \o << <<"sda.is_high", bit_offset>> >>
        \o set_scl_low \o wait_for_clk
  IN << <<"byte=0", 0>> >>
     \o set_sda_high
     \o ForRange(bit, 0, 7)
     \o (IF should_send_ack THEN set_sda_low ELSE set_sda_high)
     \o set_scl_high \o wait_for_clk
     \o set_scl_low \o set_sda_low \o wait_for_clk

\* Mutant: the byte goes out least significant bit first.
i2c_write_byte_lsb(b) ==
  LET bit(bit_offset) ==
        LET out_bit == Bit(b, bit_offset)
        IN (IF out_bit = 1 THEN set_sda_high ELSE set_sda_low)
           \o set_scl_high \o wait_for_clk
           \o set_scl_low \o set_sda_low \o wait_for_clk
  IN ForRange(bit, 0, 7)

i2c_write_byte(b) ==
  LET bit(bit_offset) ==
        LET out_bit == Bit(b, 7 - bit_offset)
        IN (IF out_bit = 1 THEN set_sda_high ELSE set_sda_low)
           \o set_scl_high \o wait_for_clk
           \o set_scl_low \o set_sda_low \o wait_for_clk
  IN ForRange(bit, 0, 7)

\* Mutant: the last byte is acknowledged like the others.
read_from_slave_all_acked(len) ==
  LET each(i) == i2c_read_byte(TRUE) \o << <<"input[i]=", i>> >>
  IN ForRange(each, 0, len - 1)

read_from_slave(len) ==
  LET each(i) ==
        LET should_send_ack == i # len - 1
        IN i2c_read_byte(should_send_ack) \o << <<"input[i]=", i>> >>
  IN ForRange(each, 0, len - 1)

write_to_slave(out) ==
  LET each(i) == i2c_write_byte(out[i]) \o check_ack
  IN ForRange(each, 1, Len(out))

Return(r) == << <<"return", r>> >>

\* (addr << 1) | rw on a u8
AddrByte(a, rw) == ((a * 2) % 256) + rw

\* Mutant: no early return on an empty payload.
WriteBody_no_empty_check(a, out) ==
  i2c_start
  \o i2c_write_byte(AddrByte(a, 0)) \o check_ack
  \o write_to_slave(out)
  \o i2c_stop \o Return(Ok)

WriteBody(a, out) ==
  IF out = <<>> THEN Return(Ok)
  ELSE i2c_start
       \o i2c_write_byte(AddrByte(a, 0)) \o check_ack
       \o write_to_slave(out)
       \o i2c_stop \o Return(Ok)

ReadBody(a, len) ==
  IF len = 0 THEN Return(Ok)
  ELSE i2c_start
       \o i2c_write_byte(AddrByte(a, 1)) \o check_ack
       \o read_from_slave(len)
       \o i2c_stop \o Return(Ok)

WriteReadBody(a, out, len) ==
  IF out = <<>> \/ len = 0 THEN Return(InvalidData)
  ELSE i2c_start
       \o i2c_write_byte(AddrByte(a, 0)) \o check_ack
       \o write_to_slave(out)
       \o i2c_start
       \o i2c_write_byte(AddrByte(a, 1)) \o check_ack
       \o read_from_slave(len)
       \o i2c_stop \o Return(Ok)

\* ---------------------------------------------------------------- harness
\* No pin call of the record failed.
NoFail(t) == \A i \in 1..Len(t) : t[i][1] # "fail"

Idle == prog = <<>>
Running == prog # <<>>
Next1 == Head(prog)
Log(ev) == trace' = Append(trace, ev)
\* The `?` on a failed call: the error is wrapped and returned at once.
Abort(r) == prog' = <<>> /\ result' = r

\* A new call starts a fresh harness record.
Begin(name, body) ==
  /\ op' = name
  /\ prog' = body
  /\ result' = None
  /\ trace' = <<>>
  /\ timerFaulted' = FALSE

\* The bus is assumed idle (both lines released) at entry.  The engine keeps
\* nothing from one transaction to the next, so each behaviour follows one
\* transaction issued on a fresh harness.
BusIdle == scl = 1 /\ sda = 1 /\ op = "none"

I2cWrite ==
  /\ engine = "i2c" /\ Idle /\ BusIdle
  /\ \E a \in Addrs, out \in SeqsUpTo(OutBytes, MaxLen) :
       /\ Begin("write", WriteBody(a, out))
       /\ addr' = a /\ output' = out /\ input' = <<>>
  /\ UNCHANGED <<engine, prev, scl, sda, byte, ack, slave, notI2C>>

I2cRead ==
  /\ engine = "i2c" /\ Idle /\ BusIdle
  /\ \E a \in Addrs, len \in 0..MaxLen :
       /\ Begin("read", ReadBody(a, len))
       /\ addr' = a /\ output' = <<>> /\ input' = [i \in 1..len |-> 0]
  /\ UNCHANGED <<engine, prev, scl, sda, byte, ack, slave, notI2C>>

I2cWriteRead ==
  /\ engine = "i2c" /\ Idle /\ BusIdle
  /\ \E a \in Addrs, out \in SeqsUpTo(OutBytes, MaxLen), len \in 0..MaxLen :
       /\ Begin("write_read", WriteReadBody(a, out, len))
       /\ addr' = a /\ output' = out /\ input' = [i \in 1..len |-> 0]
  /\ UNCHANGED <<engine, prev, scl, sda, byte, ack, slave, notI2C>>

\* scl.set_high()/set_low(), sda.set_high()/set_low() with map_err(Error::Bus)?
I2cDrive ==
  /\ Running /\ Next1[1] \in {"scl", "sda"}
  /\ \/ /\ Log(Next1)
        /\ prog' = Tail(prog)
        /\ scl' = IF Next1[1] = "scl" THEN Next1[2] ELSE scl
        /\ sda' = IF Next1[1] = "sda" THEN Next1[2] ELSE sda
        /\ UNCHANGED result
     \/ \E e \in PinErrors :
          /\ Log(<<"fail", e>>)
          /\ Abort(Bus(e))
          /\ UNCHANGED <<scl, sda>>
  /\ UNCHANGED <<engine, prev, op, timerFaulted, addr, output, input, byte, ack, slave, notI2C>>

\* Mutant: the timer's error is returned to the caller.
WaitForClk_propagate ==
  /\ Running /\ Next1[1] = "wait_for_clk"
  /\ Log(<<"wait", 0>>)
  /\ \/ prog' = Tail(prog) /\ UNCHANGED <<result, timerFaulted>>
     \/ timerFaulted' = TRUE /\ Abort(<<"TimerFault", 0>>)
  /\ UNCHANGED <<engine, prev, op, i2cVars, notI2C>>

\* block!(self.clk.wait()).ok(): whatever the timer answers is dropped.
WaitForClk ==
  /\ Running /\ Next1[1] = "wait_for_clk"
  /\ Log(<<"wait", 0>>)
  /\ prog' = Tail(prog)
  /\ \E fault \in BOOLEAN : timerFaulted' = (timerFaulted \/ fault)
  /\ UNCHANGED <<engine, prev, op, result, i2cVars, notI2C>>

\* What a read of SDA sees: open drain, low if the master or the slave pulls low.
SdaLine(slave_level) == IF sda = 1 /\ slave_level = 1 THEN 1 ELSE 0

\* let ack = self.sda.is_low().map_err(Error::Bus)?
IsAckSample ==
  /\ Running /\ Next1[1] = "sda.is_low"
  /\ \/ \E s \in {0, 1} :
          /\ Log(<<"sda.is_low", SdaLine(s)>>)
          /\ ack' = (SdaLine(s) = 0)
          /\ prog' = Tail(prog)
          /\ UNCHANGED result
     \/ \E e \in PinErrors :
          /\ Log(<<"fail", e>>)
          /\ Abort(Bus(e))
          /\ UNCHANGED ack
  /\ UNCHANGED <<engine, prev, op, timerFaulted, scl, sda, addr, output, input, byte,
                 slave, notI2C>>

\* if !self.i2c_is_ack()? { Err(Error::NoAck) } else { Ok(()) }
CheckAck ==
  /\ Running /\ Next1[1] = "check_ack"
  /\ IF ~ack THEN Abort(NoAck) ELSE prog' = Tail(prog) /\ UNCHANGED result
  /\ UNCHANGED <<engine, prev, op, trace, timerFaulted, i2cVars, notI2C>>

\* let mut byte: u8 = 0
ClearByte ==
  /\ Running /\ Next1[1] = "byte=0"
  /\ byte' = 0
  /\ prog' = Tail(prog)
  /\ UNCHANGED <<engine, prev, op, result, trace, timerFaulted,
                 scl, sda, addr, output, input, ack, slave, notI2C>>

\* Mutant: the first sample lands in bit 0.
SetBit_lsb_first(b, bit_offset) ==
  IF Bit(b, bit_offset) = 1 THEN b ELSE b + Pow2(bit_offset)

\* byte |= 1 << (7 - bit_offset)
SetBit(b, bit_offset) == IF Bit(b, 7 - bit_offset) = 1 THEN b ELSE b + Pow2(7 - bit_offset)

\* if self.sda.is_high().map_err(Error::Bus)? { byte |= 1 << (7 - bit_offset) }
ReadBitSample ==
  /\ Running /\ Next1[1] = "sda.is_high"
  /\ LET bit_offset == Next1[2] IN
     \/ \E b \in (IF bit_offset = 0 THEN SlaveBytes ELSE {slave}) :
          LET level == SdaLine(Bit(b, 7 - bit_offset)) IN
          /\ slave' = b
          /\ Log(<<"sda.is_high", level>>)
          /\ byte' = IF level = 1 THEN SetBit(byte, bit_offset) ELSE byte
          /\ prog' = Tail(prog)
          /\ UNCHANGED result
     \/ \E e \in PinErrors :
          /\ Log(<<"fail", e>>)
          /\ Abort(Bus(e))
          /\ UNCHANGED <<byte, slave>>
  /\ UNCHANGED <<engine, prev, op, timerFaulted, scl, sda, addr, output, input, ack, notI2C>>

\* input[i] = self.i2c_read_byte(should_send_ack)?
StoreByte ==
  /\ Running /\ Next1[1] = "input[i]="
  /\ input' = [input EXCEPT ![Next1[2] + 1] = byte]
  /\ prog' = Tail(prog)
  /\ UNCHANGED <<engine, prev, op, result, trace, timerFaulted,
                 scl, sda, addr, output, byte, ack, slave, notI2C>>

\* The operation's final value (or an early return before any pin call).
Returns ==
  /\ Running /\ Next1[1] = "return"
  /\ prog' = <<>>
  /\ result' = Next1[2]
  /\ UNCHANGED <<engine, prev, op, trace, timerFaulted, i2cVars, notI2C>>

\* ---------------------------------------------------------------- UART
set_timer(nanoseconds) == << <<"timer.start", nanoseconds>> >>
wait == << <<"wait", 0>> >>
wait_time(nanoseconds) == set_timer(nanoseconds) \o wait

\* Mutant: the data bits go out most significant bit first.
SerialWriteBody_msb_first(b) ==
  LET bit(k) ==
        (IF Bit(b, 7 - k) # 0 THEN << <<"tx", 1>> >> ELSE << <<"tx", 0>> >>)
        \o wait
  IN << <<"tx", 0>> >>
     \o wait_time(tx_delay)
     \o ForRange(bit, 0, 7)
     \o << <<"tx", 1>> >>
     \o wait
     \o Return(Ok)

\* serial::Write::write
SerialWriteBody(b) ==
  LET bit(k) ==
        \* select_bit = 1 << k
        (IF Bit(b, k) # 0 THEN << <<"tx", 1>> >> ELSE << <<"tx", 0>> >>)
        \o wait
  IN << <<"tx", 0>> >>
     \o wait_time(tx_delay)
     \o ForRange(bit, 0, 7)
     \o << <<"tx", 1>> >>
     \o wait
     \o Return(Ok)

\* Mutant: one wait between the start bit and data bit 0.
ReadFrame_one_wait ==
  LET bit(k) == << <<"rx.is_high", k>> >> \o wait
  IN wait_time(rx_delay_intrabit)
     \o ForRange(bit, 0, 7)
     \o wait_time(rx_delay_stopbit)
     \o << <<"return data_in", 0>> >>

\* What read and try_read do once the start bit was seen.
ReadFrame ==
  LET bit(k) == << <<"rx.is_high", k>> >> \o wait
  IN wait_time(rx_delay_centering)
     \o wait_time(rx_delay_intrabit)
     \o ForRange(bit, 0, 7)
     \o wait_time(rx_delay_stopbit)
     \o << <<"return data_in", 0>> >>

\* serial::Read::read
SerialReadBody == << <<"while rx.is_high", 0>> >> \o ReadFrame

\* Serial::try_read
TryReadBody == << <<"while rx.is_high ctr", 0>> >> \o ReadFrame

\* The record of the operation before this one: which, whether it returned Ok,
\* its byte argument, the bit order then in force, and whether some send has
\* returned Ok so far.  Before the first operation:
NoPrev ==
  [op |-> "none", ok |-> FALSE, byte |-> 0, bit_order |-> "MSBFirst", sent |-> FALSE]

CanCall(e) == engine = e /\ Idle /\ op = "none" /\ calls < MaxCalls

\* The harness is cleared between two operations; the engine keeps its fields
\* and the pins their levels.  A panic ends the program.
HarnessReset ==
  /\ engine # "i2c" /\ Idle /\ op # "none" /\ result # Panic
  /\ op' = "none" /\ result' = None /\ trace' = <<>> /\ timerFaulted' = FALSE
  /\ data_in' = 0 /\ ctr' = 0 /\ rx_frame' = 0 /\ byte_arg' = 0 /\ miso_byte' = 0
  /\ prev' = [op |-> op, ok |-> result[1] = "Ok", byte |-> byte_arg,
              bit_order |-> bit_order,
              sent |-> prev.sent \/ (op = "send" /\ result = Ok)]
  /\ UNCHANGED <<engine, prog, calls, tx, uartCfg, i2cVars,
                 mode, bit_order, read_val, sck, mosi, loopback>>

set_rate ==
  /\ CanCall("uart")
  /\ \E r \in Rates :
       /\ rate' = r
       /\ rx_delay_centering' = 100000000 \div r
       /\ rx_delay_intrabit' = (1000000000 \div r) - 500
       /\ rx_delay_stopbit' = 10000000 \div r
       /\ tx_delay' = 1000000000 \div r
  /\ UNCHANGED <<engine, prev, calls, op, prog, result, trace, timerFaulted,
                 tx, timeout, data_in, ctr, rx_frame, byte_arg, notUart>>

set_timeout ==
  /\ CanCall("uart")
  /\ \E t \in 0..MaxTimeout : timeout' = t
  /\ UNCHANGED <<engine, prev, calls, op, prog, result, trace, timerFaulted, tx, rate,
                 rx_delay_centering, rx_delay_intrabit, rx_delay_stopbit, tx_delay,
                 data_in, ctr, rx_frame, byte_arg, notUart>>

SerialWrite ==
  /\ CanCall("uart")
  /\ \E b \in TxBytes : Begin("write", SerialWriteBody(b)) /\ byte_arg' = b
  /\ calls' = calls + 1
  /\ UNCHANGED <<engine, prev, tx, uartCfg, data_in, ctr, rx_frame, notUart>>

SerialRead ==
  /\ CanCall("uart")
  /\ Begin("read", SerialReadBody)
  /\ data_in' = 0 /\ ctr' = 0
  /\ calls' = calls + 1
  /\ UNCHANGED <<engine, prev, tx, uartCfg, rx_frame, byte_arg, notUart>>

TryRead ==
  /\ CanCall("uart")
  /\ Begin("try_read", TryReadBody)
  /\ data_in' = 0 /\ ctr' = 0
  /\ calls' = calls + 1
  /\ UNCHANGED <<engine, prev, tx, uartCfg, rx_frame, byte_arg, notUart>>

\* self.tx.set_high()/set_low().map_err(Error::Bus)?
TxDrive ==
  /\ Running /\ Next1[1] = "tx"
  /\ \/ /\ Log(Next1)
        /\ prog' = Tail(prog)
        /\ tx' = Next1[2]
        /\ UNCHANGED result
     \/ \E e \in PinErrors :
          /\ Log(<<"fail", e>>)
          /\ Abort(Bus(e))
          /\ UNCHANGED tx
  /\ UNCHANGED <<engine, prev, op, timerFaulted, calls, uartCfg, data_in, ctr, rx_frame,
                 byte_arg, notUart>>

\* self.timer.start(Duration::from_nanos(nanoseconds))
SetTimer ==
  /\ Running /\ Next1[1] = "timer.start"
  /\ Log(Next1)
  /\ prog' = Tail(prog)
  /\ UNCHANGED <<engine, prev, op, result, timerFaulted, calls, uartVars, notUart>>

\* block!(self.timer.wait()).unwrap(): an error from the timer panics.
Wait ==
  /\ Running /\ Next1[1] = "wait"
  /\ Log(Next1)
  /\ \/ prog' = Tail(prog) /\ UNCHANGED <<result, timerFaulted>>
     \/ timerFaulted' = TRUE /\ Abort(Panic)
  /\ UNCHANGED <<engine, prev, op, calls, uartVars, notUart>>

\* The levels RX can read: any, or the level of TX when tied to it.
RxCanBe(level) == loopback => tx = level

\* Mutant: the start-bit wait gives up at a high sample.
WaitStartBit_gives_up ==
  /\ Running /\ Next1[1] = "while rx.is_high"
  /\ \/ /\ Len(trace) < MaxPoll /\ RxCanBe(1)
        /\ Log(<<"rx.is_high", 1>>)
        /\ Abort(Err)
     \/ /\ RxCanBe(0)
        /\ Log(<<"rx.is_high", 0>>)
        /\ prog' = Tail(prog)
        /\ UNCHANGED result
     \/ \E e \in PinErrors :
          /\ Log(<<"fail", e>>)
          /\ Abort(Bus(e))
  /\ UNCHANGED <<engine, prev, op, timerFaulted, calls, uartVars, notUart>>

\* while self.rx.is_high().map_err(Error::Bus)? {}
WaitStartBit ==
  /\ Running /\ Next1[1] = "while rx.is_high"
  /\ \/ /\ Len(trace) < MaxPoll /\ RxCanBe(1)
        /\ Log(<<"rx.is_high", 1>>)
        /\ UNCHANGED <<prog, result>>
     \/ /\ RxCanBe(0)
        /\ Log(<<"rx.is_high", 0>>)
        /\ prog' = Tail(prog)
        /\ UNCHANGED result
     \/ \E e \in PinErrors :
          /\ Log(<<"fail", e>>)
          /\ Abort(Bus(e))
  /\ UNCHANGED <<engine, prev, op, timerFaulted, calls, uartVars, notUart>>

\* Mutant: the bound is compared with > instead of >=.
TryStartBit_one_more_poll ==
  /\ Running /\ Next1[1] = "while rx.is_high ctr"
  /\ \/ /\ RxCanBe(1)
        /\ Log(<<"rx.is_high", 1>>)
        /\ ctr' = ctr + 1
        /\ IF ctr + 1 > timeout THEN Abort(Err) ELSE UNCHANGED <<prog, result>>
     \/ /\ RxCanBe(0)
        /\ Log(<<"rx.is_high", 0>>)
        /\ prog' = Tail(prog)
        /\ UNCHANGED <<result, ctr>>
     \/ \E e \in PinErrors :
          /\ Log(<<"fail", e>>)
          /\ Abort(Err)
          /\ UNCHANGED ctr
  /\ UNCHANGED <<engine, prev, op, timerFaulted, calls, tx, uartCfg, data_in, rx_frame,
                 byte_arg, notUart>>

\* while self.rx.is_high().map_err(|_| ())? { ctr += 1; if ctr >= self.timeout {..} }
TryStartBit ==
  /\ Running /\ Next1[1] = "while rx.is_high ctr"
  /\ \/ /\ RxCanBe(1)
        /\ Log(<<"rx.is_high", 1>>)
        /\ ctr' = ctr + 1
        /\ IF ctr + 1 >= timeout THEN Abort(Err) ELSE UNCHANGED <<prog, result>>
     \/ /\ RxCanBe(0)
        /\ Log(<<"rx.is_high", 0>>)
        /\ prog' = Tail(prog)
        /\ UNCHANGED <<result, ctr>>
     \/ \E e \in PinErrors :
          /\ Log(<<"fail", e>>)
          /\ Abort(Err)
          /\ UNCHANGED ctr
  /\ UNCHANGED <<engine, prev, op, timerFaulted, calls, tx, uartCfg, data_in, rx_frame,
                 byte_arg, notUart>>

\* Mutant: the first sample lands in bit 7.
StoreRxBit_msb_first(d, k, high) ==
  IF high THEN (IF Bit(d, 7 - k) = 1 THEN d ELSE d + Pow2(7 - k))
  ELSE (IF Bit(d, 7 - k) = 1 THEN d - Pow2(7 - k) ELSE d)

\* if rx.is_high()? { data_in |= select_bit } else { data_in &= !select_bit }
\* with select_bit = 1 << k
StoreRxBit(d, k, high) ==
  IF high THEN (IF Bit(d, k) = 1 THEN d ELSE d + Pow2(k))
  ELSE (IF Bit(d, k) = 1 THEN d - Pow2(k) ELSE d)

\* The level of data bit k in the frame another instance of this engine
\* puts on the line with write(f).
TxLevel(f, k) ==
  SelectSeq(SerialWriteBody(f), LAMBDA ins : ins[1] = "tx")[k + 2][2]

\* The k-th data sample.  The line carries the frame a remote write(f) drives,
\* bit k at sample k, or the level of TX when RX is tied to it.
RxSample ==
  /\ Running /\ Next1[1] = "rx.is_high"
  /\ LET k == Next1[2] IN
     \/ \E f \in (IF loopback \/ k # 0 THEN {rx_frame} ELSE RxBytes) :
          LET level == IF loopback THEN tx ELSE TxLevel(f, k) IN
          /\ rx_frame' = f
          /\ Log(<<"rx.is_high", level>>)
          /\ data_in' = StoreRxBit(data_in, k, level = 1)
          /\ prog' = Tail(prog)
          /\ UNCHANGED result
     \/ \E e \in PinErrors :
          /\ Log(<<"fail", e>>)
          /\ Abort(IF op = "try_read" THEN Err ELSE Bus(e))
          /\ UNCHANGED <<data_in, rx_frame>>
  /\ UNCHANGED <<engine, prev, op, timerFaulted, calls, tx, uartCfg, ctr, byte_arg, notUart>>

\* Ok(data_in)
ReturnData ==
  /\ Running /\ Next1[1] = "return data_in"
  /\ prog' = <<>>
  /\ result' = OkByte(data_in)
  /\ UNCHANGED <<engine, prev, op, trace, timerFaulted, calls, uartVars, notUart>>

\* ---------------------------------------------------------------- SPI
\* Mutant: every mode idles low.
IdleLevel_always_low(m) == 0

\* mode.polarity of MODE_0..MODE_3: IdleLow for 0 and 1, IdleHigh for 2 and 3.
IdleLevel(m) == IF m \in {0, 1} THEN 0 ELSE 1

set_clk_high == << <<"sck", 1>> >>
set_clk_low == << <<"sck", 0>> >>
wait_for_timer == << <<"wait_for_timer", 0>> >>
read_bit(bit_offset) == << <<"read_bit", bit_offset>> >>

\* Mutant: the bit order is ignored, the byte always goes out MSB-first.
SendBody_msb_only(m, order, b) ==
  LET bit(bit_offset) ==
        LET out_bit == Bit(b, 7 - bit_offset)
        IN (IF out_bit = 1 THEN << <<"mosi", 1>> >> ELSE << <<"mosi", 0>> >>)
           \o CASE m = 0 -> wait_for_timer \o set_clk_high \o read_bit(bit_offset)
                            \o wait_for_timer \o set_clk_low
                [] m = 1 -> set_clk_high \o wait_for_timer \o read_bit(bit_offset)
                            \o set_clk_low \o wait_for_timer
                [] m = 2 -> wait_for_timer \o set_clk_low \o read_bit(bit_offset)
                            \o wait_for_timer \o set_clk_high
                [] m = 3 -> set_clk_low \o wait_for_timer \o read_bit(bit_offset)
                            \o set_clk_high \o wait_for_timer
  IN ForRange(bit, 0, 7) \o Return(Ok)

\* Mutant: in mode 1 MISO is sampled after the trailing clock edge.
SendBody_mode1_late_sample(m, order, b) ==
  LET bit(bit_offset) ==
        LET out_bit == IF order = "MSBFirst" THEN Bit(b, 7 - bit_offset)
                       ELSE Bit(b, bit_offset)
        IN (IF out_bit = 1 THEN << <<"mosi", 1>> >> ELSE << <<"mosi", 0>> >>)
           \o CASE m = 0 -> wait_for_timer \o set_clk_high \o read_bit(bit_offset)
                            \o wait_for_timer \o set_clk_low
                [] m = 1 -> set_clk_high \o wait_for_timer \o set_clk_low
                            \o read_bit(bit_offset) \o wait_for_timer
                [] m = 2 -> wait_for_timer \o set_clk_low \o read_bit(bit_offset)
                            \o wait_for_timer \o set_clk_high
                [] m = 3 -> set_clk_low \o wait_for_timer \o read_bit(bit_offset)
                            \o set_clk_high \o wait_for_timer
  IN ForRange(bit, 0, 7) \o Return(Ok)

\* FullDuplex::try_send
SendBody(m, order, b) ==
  LET bit(bit_offset) ==
        LET out_bit == IF order = "MSBFirst" THEN Bit(b, 7 - bit_offset)
                       ELSE Bit(b, bit_offset)
        IN (IF out_bit = 1 THEN << <<"mosi", 1>> >> ELSE << <<"mosi", 0>> >>)
           \o CASE m = 0 -> wait_for_timer \o set_clk_high \o read_bit(bit_offset)
                            \o wait_for_timer \o set_clk_low
                [] m = 1 -> set_clk_high \o wait_for_timer \o read_bit(bit_offset)
                            \o set_clk_low \o wait_for_timer
                [] m = 2 -> wait_for_timer \o set_clk_low \o read_bit(bit_offset)
                            \o wait_for_timer \o set_clk_high
                [] m = 3 -> set_clk_low \o wait_for_timer \o read_bit(bit_offset)
                            \o set_clk_high \o wait_for_timer
  IN ForRange(bit, 0, 7) \o Return(Ok)

set_bit_order ==
  /\ CanCall("spi")
  /\ \E order \in {"MSBFirst", "LSBFirst"} : bit_order' = order
  /\ UNCHANGED <<engine, prev, calls, op, prog, result, trace, timerFaulted,
                 mode, read_val, sck, mosi, loopback, miso_byte, notSpi>>

TrySend ==
  /\ CanCall("spi")
  /\ \E b \in SendBytes : Begin("send", SendBody(mode, bit_order, b)) /\ byte_arg' = b
  /\ calls' = calls + 1
  /\ UNCHANGED <<engine, prev, spiVars, i2cVars, tx, uartCfg, data_in, ctr, rx_frame>>

\* FullDuplex::try_read: no pin, no timer.
SpiTryRead ==
  /\ CanCall("spi")
  /\ op' = "read" /\ prog' = <<>> /\ trace' = <<>> /\ timerFaulted' = FALSE
  /\ result' = IF read_val = <<>> THEN NoData ELSE OkByte(read_val[1])
  /\ calls' = calls + 1
  /\ UNCHANGED <<engine, prev, spiVars, notSpi>>

\* Mutant: a failed drive is dropped and the send goes on.
SpiDrive_error_dropped ==
  /\ Running /\ Next1[1] \in {"mosi", "sck"}
  /\ \/ /\ Log(Next1)
        /\ mosi' = IF Next1[1] = "mosi" THEN Next1[2] ELSE mosi
        /\ sck' = IF Next1[1] = "sck" THEN Next1[2] ELSE sck
     \/ \E e \in PinErrors :
          /\ Log(<<"fail", e>>)
          /\ UNCHANGED <<mosi, sck>>
  /\ prog' = Tail(prog)
  /\ UNCHANGED <<engine, prev, op, result, timerFaulted, calls, mode, bit_order, read_val,
                 loopback, miso_byte, notSpi>>

\* mosi.try_set_high()/try_set_low(), sck.try_set_high()/try_set_low()
SpiDrive ==
  /\ Running /\ Next1[1] \in {"mosi", "sck"}
  /\ \/ /\ Log(Next1)
        /\ prog' = Tail(prog)
        /\ mosi' = IF Next1[1] = "mosi" THEN Next1[2] ELSE mosi
        /\ sck' = IF Next1[1] = "sck" THEN Next1[2] ELSE sck
        /\ UNCHANGED result
     \/ \E e \in PinErrors :
          /\ Log(<<"fail", e>>)
          /\ Abort(Bus(e))
          /\ UNCHANGED <<mosi, sck>>
  /\ UNCHANGED <<engine, prev, op, timerFaulted, calls, mode, bit_order, read_val, loopback,
                 miso_byte, notSpi>>

\* block!(self.timer.try_wait()).ok()
WaitForTimer ==
  /\ Running /\ Next1[1] = "wait_for_timer"
  /\ Log(<<"wait", 0>>)
  /\ prog' = Tail(prog)
  /\ \E fault \in BOOLEAN : timerFaulted' = (timerFaulted \/ fault)
  /\ UNCHANGED <<engine, prev, op, result, calls, spiVars, notSpi>>

\* Mutant: the sample is shifted in from the top (least significant bit first).
ShiftIn_lsb_first(rv, is_miso_high) ==
  LET shifted_value == (IF rv = <<>> THEN 0 ELSE rv[1]) \div 2
  IN IF is_miso_high THEN <<shifted_value + 128>> ELSE <<shifted_value>>

\* Mutant: the shift keeps the bits that leave a u8.
ShiftIn_no_truncation(rv, is_miso_high) ==
  LET shifted_value == (IF rv = <<>> THEN 0 ELSE rv[1]) * 2
  IN IF is_miso_high THEN <<shifted_value + 1>> ELSE <<shifted_value>>

\* self.read_val.unwrap_or(0) << 1 on a u8, then | 1 if MISO is high
ShiftIn(rv, is_miso_high) ==
  LET shifted_value == ((IF rv = <<>> THEN 0 ELSE rv[1]) * 2) % 256
  IN IF is_miso_high THEN <<shifted_value + 1>> ELSE <<shifted_value>>

ReadBit ==
  /\ Running /\ Next1[1] = "read_bit"
  /\ LET bit_offset == Next1[2] IN
     \/ \E f \in (IF loopback THEN {0}
                  ELSE IF bit_offset = 0 THEN MisoBytes ELSE {miso_byte}) :
          LET level == IF loopback THEN mosi ELSE Bit(f, 7 - bit_offset) IN
          /\ miso_byte' = f
          /\ Log(<<"miso.is_high", level>>)
          /\ read_val' = ShiftIn(read_val, level = 1)
          /\ prog' = Tail(prog)
          /\ UNCHANGED result
     \/ \E e \in PinErrors :
          /\ Log(<<"fail", e>>)
          /\ Abort(Bus(e))
          /\ UNCHANGED <<read_val, miso_byte>>
  /\ UNCHANGED <<engine, prev, op, timerFaulted, calls, mode, bit_order, sck, mosi, loopback,
                 notSpi>>

\* ---------------------------------------------------------------- specifications
\* No operation in flight, nothing recorded.
Fresh ==
  /\ op = "none" /\ prog = <<>> /\ result = None /\ trace = <<>>
  /\ timerFaulted = FALSE /\ calls = 0 /\ prev = NoPrev

\* I2cBB::new only stores the handles; the lines start released.
I2cNew ==
  /\ scl = 1 /\ sda = 1
  /\ addr = 0 /\ output = <<>> /\ input = <<>>
  /\ byte = 0 /\ ack = FALSE /\ slave = 0

\* Serial::new: every field 0; TX idles high.
SerialNew ==
  /\ tx = 1
  /\ rate = 0 /\ rx_delay_centering = 0 /\ rx_delay_intrabit = 0
  /\ rx_delay_stopbit = 0 /\ tx_delay = 0 /\ timeout = 0
  /\ data_in = 0 /\ ctr = 0 /\ rx_frame = 0 /\ byte_arg = 0

\* SPI::new(mode, ..): read_val None, the default bit order, and SCLK driven to
\* the idle level of mode.polarity; a failure of that drive is dropped
\* (unwrap_or(())) with its error value and leaves SCLK where it was.
SpiNew(m) ==
  /\ mode = m /\ bit_order = "MSBFirst" /\ read_val = <<>>
  /\ mosi = 0 /\ miso_byte = 0
  /\ loopback \in BOOLEAN
  /\ op = "new" /\ prog = <<>> /\ result = Ok /\ timerFaulted = FALSE /\ calls = 0
  /\ prev = NoPrev
  /\ \/ sck = IdleLevel(m) /\ trace = << <<"sck", IdleLevel(m)>> >>
     \/ sck \in {0, 1} /\ trace = << <<"fail", 0>> >>

\* An engine that is not instantiated: its variables never change.
NoSpi ==
  /\ mode = 0 /\ bit_order = "MSBFirst" /\ read_val = <<>>
  /\ sck = 0 /\ mosi = 0 /\ miso_byte = 0

InitI2C == engine = "i2c" /\ Fresh /\ I2cNew /\ SerialNew /\ NoSpi /\ loopback = FALSE

InitUart ==
  engine = "uart" /\ Fresh /\ I2cNew /\ SerialNew /\ NoSpi /\ loopback \in BOOLEAN

InitSpi == engine = "spi" /\ I2cNew /\ SerialNew /\ \E m \in 0..3 : SpiNew(m)

Init == InitI2C \/ InitUart \/ InitSpi

NextI2C ==
  \/ I2cWrite \/ I2cRead \/ I2cWriteRead
  \/ I2cDrive \/ WaitForClk \/ IsAckSample \/ CheckAck
  \/ ClearByte \/ ReadBitSample \/ StoreByte \/ Returns

SpecI2C == InitI2C /\ [][NextI2C]_vars

NextUart ==
  \/ set_rate \/ set_timeout \/ SerialWrite \/ SerialRead \/ TryRead
  \/ TxDrive \/ SetTimer \/ Wait \/ WaitStartBit \/ TryStartBit \/ RxSample
  \/ ReturnData \/ Returns \/ HarnessReset

SpecUart == InitUart /\ [][NextUart]_vars

\* The calls an operation in flight makes.  The caller's thread runs the
\* operation to its end: as long as the pins and the timer can answer without a
\* fault, the next call is eventually made.
UartStep ==
  \/ TxDrive \/ SetTimer \/ Wait \/ WaitStartBit \/ TryStartBit \/ RxSample
  \/ ReturnData \/ Returns

UartProgress == UartStep /\ NoFail(trace') /\ timerFaulted' = timerFaulted

SpecUartLive == InitUart /\ [][NextUart]_vars /\ WF_vars(UartProgress)

NextSpi ==
  \/ set_bit_order \/ TrySend \/ SpiTryRead
  \/ SpiDrive \/ WaitForTimer \/ ReadBit \/ Returns \/ HarnessReset

SpecSpi == InitSpi /\ [][NextSpi]_vars

Next == NextI2C \/ NextUart \/ NextSpi

Spec == Init /\ [][Next]_vars

\* ---------------------------------------------------------------- bus view
\* What a logic analyser on SCL/SDA reads off the harness record of a
\* transaction that began with both lines high: "S" (SDA falls while SCL is
\* high), "P" (SDA rises while SCL is high) and, for each SCL pulse (SCL goes
\* high, then low, with SDA steady), the level on SDA: "ack"/"rd" with the level
\* the master sampled through is_low/is_high during that pulse, otherwise "bit"
\* with the level the master drove.
START == <<"S", 0>>
STOP == <<"P", 0>>

\* The analyser after one more recorded call: c, d the levels of SCL and SDA,
\* inPulse whether SCL rose and SDA has been steady since, smp the sample taken
\* in this pulse, acc what was read off so far.
WireStep(st, ev) ==
  CASE ev[1] = "scl" /\ ev[2] = 1 /\ st.c = 0 ->
         [st EXCEPT !.c = 1, !.inPulse = TRUE, !.smp = <<>>]
    [] ev[1] = "scl" /\ ev[2] = 0 /\ st.c = 1 ->
         [st EXCEPT !.c = 0, !.inPulse = FALSE, !.smp = <<>>,
                    !.acc = IF st.inPulse
                            THEN Append(@, IF st.smp = <<>> THEN <<"bit", st.d>>
                                           ELSE st.smp)
                            ELSE @]
    [] ev[1] = "sda" /\ ev[2] # st.d /\ st.c = 1 ->
         [st EXCEPT !.d = ev[2], !.inPulse = FALSE, !.smp = <<>>,
                    !.acc = Append(@, IF ev[2] = 0 THEN START ELSE STOP)]
    [] ev[1] = "sda" /\ ev[2] # st.d /\ st.c = 0 ->
         [st EXCEPT !.d = ev[2]]
    [] ev[1] = "sda.is_low" /\ st.c = 1 ->
         [st EXCEPT !.smp = <<"ack", ev[2]>>]
    [] ev[1] = "sda.is_high" /\ st.c = 1 ->
         [st EXCEPT !.smp = <<"rd", ev[2]>>]
    [] OTHER -> st

\* WireStep over t[lo..hi] in order.  The trace is halved, and the guard on
\* the left half's result has it computed before the right half starts, so that
\* the evaluation stays shallow.
RECURSIVE WireFold(_, _, _, _)
WireFold(t, lo, hi, st) ==
  IF lo > hi THEN st
  ELSE IF lo = hi THEN WireStep(st, t[lo])
  ELSE LET mid == (lo + hi) \div 2
           left == WireFold(t, lo, mid, st)
       IN CASE left.c \in {0, 1} -> WireFold(t, mid + 1, hi, left)

Wire(t) ==
  WireFold(t, 1, Len(t), [c |-> 1, d |-> 1, inPulse |-> FALSE, smp |-> <<>>,
                          acc |-> <<>>]).acc

\* A byte as eight driven pulses, most significant bit first.
ByteBits(b) == [k \in 1..8 |-> <<"bit", Bit(b, 8 - k)>>]
\* The byte that eight consecutive pulses from w[base] carry, first pulse in bit 7.
Assemble(w, base) ==
  w[base][2] * 128 + w[base + 1][2] * 64 + w[base + 2][2] * 32 + w[base + 3][2] * 16
  + w[base + 4][2] * 8 + w[base + 5][2] * 4 + w[base + 6][2] * 2 + w[base + 7][2]
Pulses(w) == Len(SelectSeq(w, LAMBDA x : x[1] \in {"bit", "ack", "rd"}))
AcksLow(t) == Cardinality({i \in 1..Len(t) : t[i] = <<"sda.is_low", 0>>})
NacksAt(t) == {i \in 1..Len(t) : t[i] = <<"sda.is_low", 1>>}
Finished == prog = <<>> /\ op # "none"

\* ---------------------------------------------------------------- claims
\* C1: write(addr, [b]) against a slave that acknowledges both bytes returns Ok
\* and puts on the bus, in order: START, the byte (addr << 1) | 0 most
\* significant bit first, an acknowledge pulse, b most significant bit first, an
\* acknowledge pulse, STOP -- 18 SCL pulses between START and STOP.
C1_WriteOneByteFrame ==
  (engine = "i2c" /\ op = "write" /\ Len(output) = 1 /\ Finished
     /\ NoFail(trace) /\ AcksLow(trace) = 2)
  => /\ result = Ok
     /\ LET w == Wire(trace) IN
        /\ w = <<START>> \o ByteBits(AddrByte(addr, 0)) \o << <<"ack", 0>> >>
               \o ByteBits(output[1]) \o << <<"ack", 0>> >> \o <<STOP>>
        /\ w[2] = <<"bit", Bit(addr, 6)>>
        /\ Pulses(w) = 18

C1_Witness ==
  engine = "i2c" /\ op = "write" /\ result = Ok /\ addr = 80 /\ output = <<165>>

\* C2: in write_read with both slices non-empty, a STOP condition is seen on
\* the bus only as the last event of the transaction (the change of direction
\* is a START with no STOP before it).
C2_NoStopBeforeRepeatedStart ==
  (engine = "i2c" /\ op = "write_read")
  => LET w == Wire(trace) IN \A i \in 1..Len(w) : w[i] = STOP => i = Len(w)

\* C3: read(addr, buffer of n >= 1) against an acknowledging slave returns Ok
\* after START, the byte (addr << 1) | 1, and n bytes of eight sampled pulses
\* each; buffer[i] is the i-th eight samples, first sample in bit 7; then STOP.
C3_ReadAssemblesMsbFirst ==
  (engine = "i2c" /\ op = "read" /\ Len(input) >= 1 /\ Finished
     /\ NoFail(trace) /\ AcksLow(trace) = 1)
  => /\ result = Ok
     /\ LET w == Wire(trace)
            n == Len(input)
        IN /\ Len(w) = 11 + 9 * n
           /\ w[1] = START
           /\ SubSeq(w, 2, 9) = ByteBits(AddrByte(addr, 1))
           /\ w[10] = <<"ack", 0>>
           /\ w[Len(w)] = STOP
           /\ \A i \in 1..n :
                /\ \A k \in 0..7 : w[9 * i + 2 + k][1] = "rd"
                /\ input[i] = Assemble(w, 9 * i + 2)

C3_Witness ==
  engine = "i2c" /\ op = "read" /\ result = Ok /\ input = <<17, 238>>

\* C4: in a successful read of n >= 1 bytes the master drives SDA low in the
\* acknowledge pulse of each of the first n-1 data bytes and high in that of
\* the last one.
C4_LastByteNack ==
  (engine = "i2c" /\ op = "read" /\ Len(input) >= 1 /\ result = Ok)
  => LET w == Wire(trace)
         n == Len(input)
     IN \A i \in 1..n : w[9 * i + 10] = <<"bit", IF i = n THEN 1 ELSE 0>>

C4_Witness ==
  engine = "i2c" /\ op = "read" /\ result = Ok /\ Len(input) = 2

\* C5: once SDA is sampled high in an acknowledge window, the transaction makes
\* no call beyond the rest of that window (SCL low, SDA low, one wait): no
\* further clock pulse, no STOP; and it returns NoAck (Bus(e) if one of those
\* two drives fails).
C5_NoAckAborts ==
  engine = "i2c"
  => /\ \A i \in NacksAt(trace) :
          /\ Len(trace) <= i + 3
          /\ \A j \in (i + 1)..Len(trace) :
               trace[j] \in {<<"scl", 0>>, <<"sda", 0>>, <<"wait", 0>>}
                            \cup {<<"fail", e>> : e \in PinErrors}
          /\ Finished => (IF NoFail(trace) THEN result = NoAck /\ Len(trace) = i + 3
                          ELSE result[1] = "Bus")
     /\ result = NoAck => NacksAt(trace) # {}

C5_Witness ==
  engine = "i2c" /\ op = "write_read" /\ result = NoAck /\ Len(trace) > 100

\* C6: every I2C operation that returns Ok leaves SCL and SDA driven high,
\* with a whole number of 9-pulse bytes clocked.
C6_OkLeavesBusReleased ==
  (engine = "i2c" /\ result = Ok)
  => /\ scl = 1 /\ sda = 1 /\ prog = <<>>
     /\ Pulses(Wire(trace)) % 9 = 0

C6_Witness ==
  engine = "i2c" /\ op = "write_read" /\ result = Ok /\ Len(trace) > 100

\* C7: with an empty slice, write and read return Ok and write_read returns
\* InvalidData, without any pin call or timer wait, the lines as they were.
EmptyCall ==
  \/ op = "write" /\ output = <<>>
  \/ op = "read" /\ input = <<>>
  \/ op = "write_read" /\ (output = <<>> \/ input = <<>>)

C7_EmptySliceNoBusActivity ==
  (engine = "i2c" /\ EmptyCall)
  => /\ trace = <<>> /\ ~timerFaulted
     /\ scl = 1 /\ sda = 1
     /\ Finished => result = (IF op = "write_read" THEN InvalidData ELSE Ok)
     /\ ~Finished => prog = Return(IF op = "write_read" THEN InvalidData ELSE Ok)

C7_Witness ==
  engine = "i2c" /\ op = "write_read" /\ output = <<165>> /\ input = <<>>
  /\ result = InvalidData

PinFaultScope ==
  \/ engine = "i2c" /\ op \in {"write", "read", "write_read"}
  \/ engine = "uart" /\ op \in {"write", "read"}
  \/ engine = "spi" /\ op = "send"

C9_FirstPinFaultAborts ==
  PinFaultScope
  => /\ \A i \in 1..Len(trace) :
          trace[i][1] = "fail"
          => (i = Len(trace) /\ prog = <<>> /\ result = Bus(trace[i][2]))
     /\ result[1] = "Bus"
        => (trace # <<>> /\ trace[Len(trace)] = <<"fail", result[2]>>)

C9_Witness ==
  engine = "spi" /\ op = "send" /\ result = Bus(2) /\ Len(trace) > 20

\* C10: UART write(b) that returns Ok drove TX low, then bit 0 .. bit 7 of b,
\* then high, each level followed by exactly one wait, and leaves TX high.
TxFrame(b) ==
  << <<"tx", 0>>, <<"wait", 0>> >>
  \o ForRange(LAMBDA k : << <<"tx", Bit(b, k)>>, <<"wait", 0>> >>, 0, 7)
  \o << <<"tx", 1>>, <<"wait", 0>> >>

C10_UartWriteFrame ==
  (engine = "uart" /\ op = "write" /\ Finished /\ NoFail(trace) /\ ~timerFaulted)
  => /\ result = Ok
     /\ tx = 1
     /\ SelectSeq(trace, LAMBDA ev : ev[1] # "timer.start") = TxFrame(byte_arg)

C10_Witness ==
  engine = "uart" /\ op = "write" /\ result = Ok /\ byte_arg = 85
  /\ SelectSeq(trace, LAMBDA ev : ev[1] = "tx")
     = << <<"tx", 0>>, <<"tx", 1>>, <<"tx", 0>>, <<"tx", 1>>, <<"tx", 0>>, <<"tx", 1>>,
          <<"tx", 0>>, <<"tx", 1>>, <<"tx", 0>>, <<"tx", 1>> >>

\* C11 as stated: on a loopback (RX tied to TX), read() after a write(b) that
\* returned Ok returns b (unless a pin or the timer fails).
UartLoopbackRead ==
  engine = "uart" /\ loopback /\ op = "read" /\ prev.op = "write" /\ prev.ok

C11_LoopbackReadReturnsWritten ==
  [](UartLoopbackRead
       => <>(result = OkByte(prev.byte) \/ ~NoFail(trace) \/ timerFaulted))

\* C11 amended: when RX carries the frame write(b) drives, data bit k at the
\* k-th data sample, read() returns b; on the loopback, read() after write(b)
\* returns no byte: every sample of its start-bit wait reads the idle-high TX.
RxData(t) == SelectSeq(t, LAMBDA ev : ev[1] = "rx.is_high" /\ ev[2] \in {0, 1})

C11_ReadDecodesWrittenFrame ==
  /\ (engine = "uart" /\ ~loopback /\ op = "read" /\ result[1] = "Ok")
     => /\ result = OkByte(rx_frame)
        /\ LET rx == RxData(trace)
               n == Len(rx)
           IN /\ n >= 9 /\ rx[n - 8][2] = 0
              /\ \A k \in 0..7 : <<"tx", rx[n - 7 + k][2]>> = TxFrame(rx_frame)[2 * k + 3]
  /\ UartLoopbackRead
     => /\ result[1] # "Ok"
        /\ \A i \in 1..Len(trace) :
             trace[i] = <<"rx.is_high", 1>> \/ (i = Len(trace) /\ trace[i][1] = "fail")

C11_Witness ==
  engine = "uart" /\ ~loopback /\ op = "read" /\ result = OkByte(200)

\* C12: as long as every sample of RX reads high, read() has not returned and
\* has made no other call (no timer call); once a sample reads low (the record
\* holds anything but high samples), read() comes to an end, and with no pin or
\* timer fault that end is a byte.
OnlyHighSamples(t) == \A i \in 1..Len(t) : t[i] = <<"rx.is_high", 1>>

UartReading == engine = "uart" /\ op = "read"

C12_ReadBlocksForStartBit ==
  /\ []((UartReading /\ OnlyHighSamples(trace))
        => (result = None /\ prog = SerialReadBody))
  /\ []((UartReading /\ Running /\ prog # SerialReadBody)
        => /\ \E n \in 0..MaxPoll + 1 :
                /\ n < Len(trace) /\ trace[n + 1] = <<"rx.is_high", 0>>
                /\ OnlyHighSamples(SubSeq(trace, 1, n))
           /\ result = None)
  /\ []((UartReading /\ Finished /\ NoFail(trace) /\ ~timerFaulted)
        => result = OkByte(data_in))
  /\ ((UartReading /\ ~OnlyHighSamples(trace)) ~> (UartReading /\ Finished))

C12_Witness ==
  /\ UartReading /\ result[1] = "Ok" /\ Len(trace) > MaxPoll
  /\ OnlyHighSamples(SubSeq(trace, 1, MaxPoll))

\* C13: try_read with timeout T returns an error, having made no timer call,
\* at the max(T, 1)-th high sample in a row of its start-bit wait (so at the
\* first one with the default T = 0); it goes on to the frame only on a low
\* sample seen before that; and it always comes to an end.
UartTrying == engine = "uart" /\ op = "try_read"

PollLimit == IF timeout = 0 THEN 1 ELSE timeout

C13_TryReadTimesOut ==
  /\ []((UartTrying /\ OnlyHighSamples(trace))
        => /\ Len(trace) = ctr /\ ctr <= PollLimit
           /\ IF ctr = PollLimit THEN prog = <<>> /\ result = Err
              ELSE prog = TryReadBody /\ result = None)
  /\ []((UartTrying /\ result = Err /\ NoFail(trace))
        => (OnlyHighSamples(trace) /\ Len(trace) = PollLimit))
  /\ []((UartTrying /\ Running /\ prog # TryReadBody)
        => (ctr < PollLimit /\ trace[ctr + 1] = <<"rx.is_high", 0>>
            /\ OnlyHighSamples(SubSeq(trace, 1, ctr))))
  /\ (UartTrying ~> (UartTrying /\ Finished))

C13_Witness ==
  /\ UartTrying /\ timeout = 2 /\ result = Err
  /\ trace = << <<"rx.is_high", 1>>, <<"rx.is_high", 1>> >>

\* C14: a timer fault during a UART write or read does not fail, abort or halt
\* it: the operation is not ended by a panic, and with fault-free pins it runs
\* to its Ok result.
C14_UartTimerFaultSwallowed ==
  (engine = "uart" /\ op \in {"write", "read"} /\ timerFaulted)
  => /\ result # Panic
     /\ (Finished /\ NoFail(trace)) => result[1] = "Ok"

\* C15: with MISO tied to MOSI and the bit order MSB-first, in each clock
\* mode, read() after a send(b) that returned Ok returns b.
ReadAfterSend(order) ==
  /\ engine = "spi" /\ op = "read"
  /\ prev.op = "send" /\ prev.ok /\ prev.bit_order = order

C15_SpiLoopbackRoundTrip ==
  (loopback /\ ReadAfterSend("MSBFirst")) => result = OkByte(prev.byte)

C15_Witness ==
  loopback /\ ReadAfterSend("MSBFirst") /\ mode = 0 /\ prev.byte = 129
  /\ result = OkByte(129)

\* C16: whatever the bit order, a send drives on MOSI bit (7 - k) of the byte at
\* index k when MSB-first and bit k when LSB-first, while the byte a completed
\* send latched is its eight MISO samples, first sample in bit 7; so with MISO
\* tied to MOSI and LSB-first, read() after send(b) returns b bit-reversed.
Reverse8(b) ==
  Bit(b, 0) * 128 + Bit(b, 1) * 64 + Bit(b, 2) * 32 + Bit(b, 3) * 16
  + Bit(b, 4) * 8 + Bit(b, 5) * 4 + Bit(b, 6) * 2 + Bit(b, 7)

MosiDrives(t) == SelectSeq(t, LAMBDA ev : ev[1] = "mosi")
MisoSamples(t) == SelectSeq(t, LAMBDA ev : ev[1] = "miso.is_high")

C16_ReceiveAlwaysMsbFirst ==
  /\ (engine = "spi" /\ op = "send")
     => /\ \A k \in 0..7 :
             k < Len(MosiDrives(trace))
             => MosiDrives(trace)[k + 1][2]
                = (IF bit_order = "MSBFirst" THEN Bit(byte_arg, 7 - k)
                   ELSE Bit(byte_arg, k))
        /\ result = Ok
           => (Len(MosiDrives(trace)) = 8
               /\ read_val = <<Assemble(MisoSamples(trace), 1)>>)
  /\ (loopback /\ ReadAfterSend("LSBFirst")) => result = OkByte(Reverse8(prev.byte))

C16_Witness ==
  loopback /\ ReadAfterSend("LSBFirst") /\ prev.byte = 106 /\ result = OkByte(86)

\* C17: as long as no send has returned Ok, read() returns NoData without any
\* bus activity and the last-received slot is absent.
C17_NoDataUntilSendCompletes ==
  (engine = "spi" /\ op = "read" /\ ~prev.sent)
  => (result = NoData /\ read_val = <<>> /\ trace = <<>>)

\* C18: after a construction whose pin call did not fail, and after every send
\* that returned Ok, the last level driven on SCLK is low in modes 0 and 1 and
\* high in modes 2 and 3.
SckDrives(t) == SelectSeq(t, LAMBDA ev : ev[1] = "sck")

C18_SclkIdleAtRest ==
  (engine = "spi" /\ ((op = "new" /\ NoFail(trace)) \/ (op = "send" /\ result = Ok)))
  => LET d == SckDrives(trace)
         idle == IF mode \in {0, 1} THEN 0 ELSE 1
     IN /\ d # <<>> /\ d[Len(d)] = <<"sck", idle>>
        /\ sck = idle

C18_Witness ==
  engine = "spi" /\ op = "send" /\ result = Ok /\ mode = 3 /\ bit_order = "LSBFirst"
  /\ byte_arg = 106 /\ sck = 1

\* C19: each of the 8 bits of a send drives MOSI to the outgoing bit and then
\* makes, in this order: mode 0 wait, SCLK high, sample, wait, SCLK low; mode 1
\* SCLK high, wait, sample, SCLK low, wait; mode 2 wait, SCLK low, sample,
\* wait, SCLK high; mode 3 SCLK low, wait, sample, SCLK high, wait.  A send
\* that returns Ok made 8 samples, 16 SCLK drives and 16 waits.
SampleMiso == <<"miso.is_high", 0>>
TickWait == <<"wait", 0>>

ModeSteps(m) ==
  CASE m = 0 -> <<TickWait, <<"sck", 1>>, SampleMiso, TickWait, <<"sck", 0>> >>
    [] m = 1 -> << <<"sck", 1>>, TickWait, SampleMiso, <<"sck", 0>>, TickWait>>
    [] m = 2 -> <<TickWait, <<"sck", 0>>, SampleMiso, TickWait, <<"sck", 1>> >>
    [] m = 3 -> << <<"sck", 0>>, TickWait, SampleMiso, <<"sck", 1>>, TickWait>>

\* The call expected at position i (1..48) of the record of a send.
ExpectedCall(i) ==
  LET k == (i - 1) \div 6
      j == (i - 1) % 6
  IN IF j = 0
     THEN <<"mosi", IF bit_order = "MSBFirst" THEN Bit(byte_arg, 7 - k)
                    ELSE Bit(byte_arg, k)>>
     ELSE ModeSteps(mode)[j]

\* The record with the sampled levels left out.
CallOf(ev) == IF ev[1] = "miso.is_high" THEN SampleMiso ELSE ev

Count(t, name) == Len(SelectSeq(t, LAMBDA ev : ev[1] = name))

C19_SendStepOrder ==
  (engine = "spi" /\ op = "send")
  => /\ Len(trace) <= 48
     /\ \A i \in 1..Len(trace) :
          trace[i][1] # "fail" => CallOf(trace[i]) = ExpectedCall(i)
     /\ result = Ok
        => /\ Len(trace) = 48
           /\ Count(trace, "miso.is_high") = 8
           /\ Count(trace, "sck") = 16
           /\ Count(trace, "wait") = 16

C19_Witness ==
  engine = "spi" /\ op = "send" /\ result = Ok /\ mode = 1 /\ timerFaulted

\* C20: the byte latched by a send that returned Ok is exactly its 8 MISO
\* samples, first sample in bit 7, whatever was latched before; and that byte
\* is what the next read() returns.
C20_NoCarryOver ==
  /\ (engine = "spi" /\ op = "send" /\ result = Ok)
     => (Len(MisoSamples(trace)) = 8
         /\ read_val = <<Assemble(MisoSamples(trace), 1)>>)
  /\ (engine = "spi" /\ op = "read" /\ prev.op = "send" /\ prev.ok)
     => (read_val # <<>> /\ read_val[1] \in 0..255 /\ result = OkByte(read_val[1]))

C20_Witness ==
  /\ engine = "spi" /\ op = "send" /\ result = Ok /\ ~loopback
  /\ prev.op = "send" /\ prev.bit_order = "LSBFirst"
  /\ read_val = <<197>>

\* C21 as stated: read() that returns a byte made, from the low sample that
\* ended its start-bit wait on, one wait, then 8 times a sample of RX and a
\* wait, then one wait with no sample: 10 waits.
AfterStartBit(t) ==
  LET low == CHOOSE i \in 1..Len(t) :
               /\ t[i] = <<"rx.is_high", 0>>
               /\ \A j \in 1..(i - 1) : t[j] # <<"rx.is_high", 0>>
  IN SubSeq(t, low + 1, Len(t))

CallNames(t) == [i \in 1..Len(t) |-> t[i][1]]

Ticks(t) == SelectSeq(t, LAMBDA ev : ev[1] # "timer.start")

FrameCalls(lead) ==
  [i \in 1..lead |-> "wait"]
  \o ForRange(LAMBDA k : <<"rx.is_high", "wait">>, 0, 7)
  \o <<"wait">>

UartReadOk == engine = "uart" /\ op = "read" /\ result[1] = "Ok"

C21_OneWaitBeforeBit0 ==
  UartReadOk => CallNames(Ticks(AfterStartBit(trace))) = FrameCalls(1)

\* C21 amended: from the low sample that ended its start-bit wait on, read()
\* makes two waits (the centering delay, then the intrabit delay), then 8
\* times a sample of RX and a wait, then one wait with no sample, in this
\* order at every moment of the call: 11 waits for a byte returned, whose bit
\* k is the k-th of these 8 samples, so that no level of RX during the stop
\* bit has a part in it.
C21_TwoWaitsBeforeBit0 ==
  /\ (UartReading /\ ~OnlyHighSamples(trace) /\ NoFail(trace))
     => LET calls_made == CallNames(Ticks(AfterStartBit(trace)))
        IN calls_made = SubSeq(FrameCalls(2), 1, Len(calls_made))
  /\ UartReadOk
     => LET frame == AfterStartBit(trace)
            rx == RxData(frame)
        IN /\ CallNames(Ticks(frame)) = FrameCalls(2)
           /\ Count(frame, "wait") = 11
           /\ Len(rx) = 8
           /\ \A k \in 0..7 : Bit(result[2], k) = rx[k + 1][2]
           /\ frame[Len(frame)][1] = "wait"

C21_Witness ==
  /\ UartReadOk /\ result = OkByte(200)
  /\ Count(AfterStartBit(trace), "wait") = 11
  /\ Len(trace) > Len(AfterStartBit(trace)) + 1

\* C22: no UART operation restarts the timer: the only timer call that write,
\* read and try_read make is the wait for the next tick, also on an engine
\* whose set_rate was never called.
C22_TimerNeverRestarted ==
  engine = "uart" => Count(trace, "timer.start") = 0

\* C23: in a transaction started from an idle bus, a call that changes the
\* level driven on SDA is made while SCL is driven low, or else it is one of
\* the SDA calls of i2c_start or i2c_stop: the record of calls then ends with
\* the calls of that primitive up to this one.  No SDA call of the data bits
\* or of the acknowledge bit of a byte changes SDA while SCL is high.
Recorded(body) ==
  [i \in 1..Len(body) |->
     IF body[i] = wait_for_clk[1] THEN <<"wait", 0>> ELSE body[i]]

EndsWith(t, s) ==
  Len(t) >= Len(s) /\ SubSeq(t, Len(t) - Len(s) + 1, Len(t)) = s

\* The calls of a primitive up to and including each of its SDA calls.
UpToSdaCalls(body) ==
  {SubSeq(Recorded(body), 1, i) : i \in {j \in 1..Len(body) : body[j][1] = "sda"}}

InStartOrStop(t) ==
  \E s \in UpToSdaCalls(i2c_start) \cup UpToSdaCalls(i2c_stop) : EndsWith(t, s)

C23_SdaChangesWhileSclLow ==
  [][(engine = "i2c" /\ sda' # sda) => (scl = 0 \/ InStartOrStop(trace'))]_vars

\* A write_read of one byte each way that returned Ok: SDA was driven to a
\* new level in data bits (SCL low) and in START and STOP (SCL high).
C23_Witness ==
  /\ engine = "i2c" /\ op = "write_read" /\ result = Ok
  /\ output = <<165>> /\ Len(input) = 1
  /\ Count(Wire(trace), "S") = 2
  /\ \E i \in 4..Len(trace) :
       /\ trace[i] = <<"sda", 1>> /\ trace[i + 1] = <<"scl", 1>>
       /\ SubSeq(trace, i - 3, i - 1) = << <<"scl", 0>>, <<"sda", 0>>, <<"wait", 0>> >>

====
